---------------------------- MODULE Spec2Model ----------------------------
(* A model of doom-fire.go: the Flame grid engine (Init, SetDimensions,   *)
(* Spread), the renderer (mapColor, Render) and the driver/worker pair    *)
(* (main, fire) that exchange Dimensions over one unbuffered channel.     *)
EXTENDS Integers, Sequences, FiniteSets

\* ------------------------------------------------------------- bounds
\* Largest width and height handed to SetDimensions.
MaxW == 3
MaxH == 4
\* Largest number of inner-loop iterations of Spread run on one grid (between
\* two Init): a Spread() is started only when all of it fits.
MaxWork == 3
\* Largest value of flame.renders (frames written) in one run.
MaxRenders == 1
\* Largest terminal size term.GetSize reports: columns and character rows.
MaxCols == 1
MaxRows == 1
\* Largest number of frames the worker of fire renders in one run, and of
\* inner-loop iterations of Spread it runs on one grid.
MaxFrames == 2
MaxFrameWork == 2
\* Longest period of the draw sequence of a seeded generator.
MaxPeriod == 3
\* Largest width and height, and largest number of inner-loop iterations of
\* Spread on one grid, when the reads and writes of Spread are recorded.
MaxTraceW == 3
MaxTraceH == 3
MaxTraceWork == 3
\* Largest width and height, and largest number of inner-loop iterations of
\* Spread on one grid, for the flames at least four cells wide.
MaxWideW == 4
MaxWideH == 2
MaxWideWork == 4

\* ---------------------------------------------------- program constants
\* The intensity written to the bottom row by Init and the upper clip bound.
MaxHeat == 35
\* rand.Intn(6): the draws are 0..IntnN-1.
IntnN == 6
\* The horizontal offset subtracted from the jitter draw.
JitterShift == 2
\* The offset subtracted from the decay draw.
DecayShift == 1

Intn == 0 .. (IntnN - 1)

\* int8(n): two's-complement wrap to -128..127.
Int8(n) == ((n + 128) % 256) - 128

Int8Range == -128 .. 127

\* The colour table of mapColor, in order (index 0 first).
cmap ==
  << <<7, 7, 7>>,      <<31, 7, 7>>,     <<47, 15, 7>>,
     <<71, 15, 7>>,    <<87, 23, 7>>,    <<103, 31, 7>>,
     <<119, 31, 7>>,   <<143, 39, 7>>,   <<159, 47, 7>>,
     <<175, 63, 7>>,   <<191, 71, 7>>,   <<199, 71, 7>>,
     <<223, 79, 7>>,   <<223, 87, 7>>,   <<223, 87, 7>>,
     <<215, 95, 7>>,   <<215, 103, 15>>, <<207, 111, 15>>,
     <<207, 119, 15>>, <<207, 127, 15>>, <<207, 135, 23>>,
     <<199, 135, 23>>, <<199, 143, 23>>, <<199, 151, 31>>,
     <<191, 159, 31>>, <<191, 159, 31>>, <<191, 167, 39>>,
     <<191, 167, 39>>, <<191, 175, 47>>, <<183, 175, 47>>,
     <<183, 183, 47>>, <<183, 183, 55>>, <<207, 207, 111>>,
     <<223, 223, 159>>, <<239, 239, 199>>, <<255, 255, 255>> >>

Black == <<0, 0, 0>>

\* mapColorOutOfRange with the upper test off by one (v > len(cmap)).
mapColorOutOfRangeOffByOne(v) == v < 0 \/ v > Len(cmap)

\* mapColorOutOfRange with the lower test off by one (v <= 0).
mapColorOutOfRangeZero(v) == v <= 0 \/ v >= Len(cmap)

\* The guard of mapColor: TRUE when v is answered with black, no table access.
mapColorOutOfRange(v) == v < 0 \/ v >= Len(cmap)

\* cmap[v] panics when the guard lets through a v that is no index of the
\* table (the table is 0-based in the source, 1-based here).
mapColorPanics(v) == ~mapColorOutOfRange(v) /\ (v + 1) \notin DOMAIN cmap

mapColor(v) ==
  IF mapColorOutOfRange(v) THEN Black
  ELSE IF v + 1 \in DOMAIN cmap THEN cmap[v + 1] ELSE Black

VARIABLES
  width,      \* flame.width
  height,     \* flame.height
  grid,       \* flame.grid, a function on 0 .. len-1
  renders,    \* flame.renders
  work,       \* inner-loop iterations of Spread started on this grid (bounds the run)
  pc,         \* where the goroutine that owns the flame is
  sy, sx,     \* the loop variables y and x of Spread
  last,       \* the Flame method called last (it has returned when pc = "idle")
  panicked,   \* a run-time panic (index out of range) has ended the process
  probe,      \* the argument of a direct call of mapColor
  colour,     \* what that call returned, <<>> before it
  tape,       \* flame.rand as seeded: the draws it yields, repeated in order
  tpos,       \* the position in tape of the next draw
  mpc,        \* where main is
  msg,        \* the Dimensions main is about to send or is sending, <<w, h>>
  cancelled,  \* cancel() has been called: ctx.Done() is closed
  registered, \* signal.Notify has registered sigs
  resets,     \* how many of the two colour resets main has written
  intSent,    \* a SIGINT has reached the process after registration
  wsrc,       \* the index src of the last inner-loop iteration of Spread, -1 before one
  wjit,       \* its jitter draw, the first rand.Intn(6)
  wdst,       \* the index it wrote (after the redirect), -1 when it skipped the cell
  writes      \* how often this Spread() has written each cell so far

probeVars == <<probe, colour>>
tapeVars == <<tape, tpos>>
mainVars == <<mpc, msg, cancelled, registered, resets, intSent>>
traceVars == <<wsrc, wjit, wdst, writes>>

\* ------------------------------------------------------------ Flame.Init
\* make([]int8, w*h): a zeroed slice of w*h cells.
MakeGrid(w, h) == [i \in 0 .. (w * h - 1) |-> 0]

\* The index Init writes for column j.
InitIndex(w, h, j) == ((h - 1) * w) + j

\* Init panics when one of the indices it writes is outside the slice.
InitPanics(w, h) == \E j \in 0 .. (w - 1) : InitIndex(w, h, j) \notin 0 .. (w * h - 1)

\* InitGrid without the fresh make: the cells above the bottom row keep what
\* the old slice held.
InitGridKeep(w, h) ==
  [i \in 0 .. (w * h - 1) |->
     IF \E j \in 0 .. (w - 1) : InitIndex(w, h, j) = i THEN MaxHeat
     ELSE IF i \in DOMAIN grid THEN grid[i] ELSE 0]

\* The grid Init leaves: zeroes, then 35 in every cell the loop over j writes.
InitGrid(w, h) ==
  [i \in 0 .. (w * h - 1) |->
     IF \E j \in 0 .. (w - 1) : InitIndex(w, h, j) = i THEN MaxHeat ELSE 0]

\* SetDimensions without the call of Init: the dimensions are stored and the
\* grid stays as it was.
SetDimensionsNoInit(w, h) ==
  /\ width' = w
  /\ height' = h
  /\ last' = "SetDimensions"
  /\ work' = 0
  /\ UNCHANGED <<grid, panicked, renders, sy, sx>>

\* SetDimensions(d): store the dimensions, then Init.
SetDimensions(w, h) ==
  /\ width' = w
  /\ height' = h
  /\ last' = "SetDimensions"
  /\ work' = 0
  /\ IF InitPanics(w, h)
       THEN /\ grid' = MakeGrid(w, h)
            /\ panicked' = TRUE
       ELSE /\ grid' = InitGrid(w, h)
            /\ panicked' = FALSE
  /\ UNCHANGED <<renders, sy, sx>>


\* ---------------------------------------------------------- Flame.Spread
\* src := (y * flame.width) + x
SpreadSrc(y, x) == (y * width) + x

\* SpreadDst with 1 subtracted from the draw instead of 2.
SpreadDstShiftOne(y, x, j) == (SpreadSrc(y, x) - width) + j - 1

\* dst := (src - flame.width) + flame.rand.Intn(6) - 2, for the draw j.
SpreadDst(y, x, j) == (SpreadSrc(y, x) - width) + j - JitterShift

\* SpreadSkip without the lower test (dst < start).
SpreadSkipNoLower(y, dst) == dst > y * width + width

\* The skip test: start, end := (y-1)*width, y*width+width; dst < start || dst > end.
SpreadSkip(y, dst) == dst < (y - 1) * width \/ dst > y * width + width

\* SpreadRedirect left out: dst is used as computed.
SpreadRedirectNone(dst) == dst

\* if end := (width*height) - 1; dst > end { dst = end }
SpreadRedirect(dst) ==
  IF dst > (width * height) - 1 THEN (width * height) - 1 ELSE dst

\* flame.grid[src] - int8(flame.rand.Intn(6)-1), in int8 arithmetic, for the draw r.
SpreadDecay(v, r) == Int8(v - Int8(r - DecayShift))

\* SpreadClip without the upper clip.
SpreadClipNoUpper(v) == IF v < 0 THEN 0 ELSE v

\* The two clips: above 35 to 35, below 0 to 0.
SpreadClip(v) == IF v > MaxHeat THEN MaxHeat ELSE IF v < 0 THEN 0 ELSE v

\* The number of inner-loop iterations of one Spread().
SpreadIterations == IF height > 1 THEN (height - 1) * width ELSE 0

\* Spread() is entered: y := flame.height - 1, x := 0.
SpreadCall ==
  /\ sy' = height - 1
  /\ sx' = 0
  /\ work' = work + SpreadIterations
  /\ last' = "Spread"
  /\ UNCHANGED <<width, height, grid, renders, panicked>>

\* One iteration of the inner loop, with jitter draw j and decay draw r.
SpreadCell(j, r) ==
  LET src == SpreadSrc(sy, sx)
      dst0 == SpreadDst(sy, sx, j)
      dst == SpreadRedirect(dst0)
  IN /\ sy > 0 /\ sx < width
     /\ IF SpreadSkip(sy, dst0)
          THEN UNCHANGED <<grid, panicked>> /\ sx' = sx + 1
          ELSE IF src \notin DOMAIN grid \/ dst \notin DOMAIN grid
            THEN /\ panicked' = TRUE
                 /\ UNCHANGED <<grid, sx>>
            ELSE /\ grid' = [grid EXCEPT ![dst] = SpreadClip(SpreadDecay(grid[src], r))]
                 /\ sx' = sx + 1
                 /\ UNCHANGED panicked
     /\ UNCHANGED <<width, height, renders, work, sy, last>>

\* The inner loop ends (x = width): y--, x := 0.
SpreadRowEnd ==
  /\ sy > 0 /\ sx >= width
  /\ sy' = sy - 1
  /\ sx' = 0
  /\ UNCHANGED <<width, height, grid, renders, work, last, panicked>>

\* The outer loop ends (y <= 0): Spread returns.
SpreadReturn ==
  /\ sy <= 0
  /\ UNCHANGED <<width, height, grid, renders, work, sy, sx, last, panicked>>

\* ---------------------------------------------------------- Flame.Render
\* The pieces of output Render writes: "\x1b[0;0H", the two colour sequences
\* "\x1b[38;2;R;G;Bm" and "\x1b[48;2;R;G;Bm" with their colour, and the glyph.
CursorHome == <<"home", <<>>>>
SetFg(c) == <<"fg", c>>
SetBg(c) == <<"bg", c>>
Glyph == <<"glyph", <<>>>>

\* RenderInitCache set to the first palette colour instead of the zero value.
RenderInitCacheFirstColour == <<7, 7, 7>>

\* prevbg, prevfg := [3]uint8{}, [3]uint8{}: the cache at the start of a frame.
RenderInitCache == <<0, 0, 0>>

\* The number of iterations of the loop "for y := 0; y < height; y += 2".
RenderRowPairs(h) == (h + 1) \div 2

\* The two grid indices read for the k-th glyph of a frame (row pair k \div w,
\* column k % w): row y for the foreground, row y+1 for the background.
RenderFgIndex(w, k) == ((2 * (k \div w)) * w) + (k % w)
RenderBgIndex(w, k) == (((2 * (k \div w)) + 1) * w) + (k % w)

\* RenderPanics when the cache is seeded from the first cell before the loops
\* (prevfg := mapColor(grid[0])): cell 0 is read whatever the dimensions are.
RenderPanicsCacheFromFirstCell(g, w, h) ==
  \/ 0 \notin DOMAIN g
  \/ /\ w > 0
     /\ \E k \in 0 .. (RenderRowPairs(h) * w - 1) :
           \/ RenderFgIndex(w, k) \notin DOMAIN g
           \/ RenderBgIndex(w, k) \notin DOMAIN g

\* Render panics when an index it reads is outside the grid.
RenderPanics(g, w, h) ==
  /\ w > 0
  /\ \E k \in 0 .. (RenderRowPairs(h) * w - 1) :
        \/ RenderFgIndex(w, k) \notin DOMAIN g
        \/ RenderBgIndex(w, k) \notin DOMAIN g
        \/ mapColorPanics(g[RenderFgIndex(w, k)])
        \/ mapColorPanics(g[RenderBgIndex(w, k)])

\* What the loops write from the k-th glyph on, of n, with the cache at
\* prevfg, prevbg: a colour sequence only when the colour differs from the cache.
RECURSIVE RenderCells(_, _, _, _, _, _)
RenderCells(g, w, k, n, prevfg, prevbg) ==
  IF k >= n THEN <<>>
  ELSE LET cf == mapColor(g[RenderFgIndex(w, k)])
           cb == mapColor(g[RenderBgIndex(w, k)])
       IN (IF cf # prevfg THEN <<SetFg(cf)>> ELSE <<>>)
          \o (IF cb # prevbg THEN <<SetBg(cb)>> ELSE <<>>)
          \o <<Glyph>>
          \o RenderCells(g, w, k + 1, n, cf, cb)

\* The buffer of one frame.
RenderBuffer(g, w, h) ==
  <<CursorHome>>
  \o (IF w > 0
        THEN RenderCells(g, w, 0, RenderRowPairs(h) * w, RenderInitCache, RenderInitCache)
        ELSE <<>>)

\* The terminal reading a token sequence from position i with colours fg, bg
\* in effect: the colours shown by each glyph, and the colours it is left in.
RECURSIVE Terminal(_, _, _, _)
Terminal(toks, i, fg, bg) ==
  IF i > Len(toks) THEN [shown |-> <<>>, fg |-> fg, bg |-> bg]
  ELSE IF toks[i][1] = "fg" THEN Terminal(toks, i + 1, toks[i][2], bg)
  ELSE IF toks[i][1] = "bg" THEN Terminal(toks, i + 1, fg, toks[i][2])
  ELSE IF toks[i][1] = "glyph"
    THEN LET rest == Terminal(toks, i + 1, fg, bg)
         IN [rest EXCEPT !.shown = <<(<<fg, bg>>)>> \o rest.shown]
  ELSE Terminal(toks, i + 1, fg, bg)

\* Render(): compose the frame, renders++, copy it to standard output.  The
\* frame written is RenderBuffer of the grid as it is when Render is called.
Render ==
  /\ last' = "Render"
  /\ IF RenderPanics(grid, width, height)
       THEN panicked' = TRUE /\ UNCHANGED renders
       ELSE renders' = renders + 1 /\ UNCHANGED panicked
  /\ UNCHANGED <<width, height, grid, work, sy, sx>>

\* --------------------------------------------------------------- newFlame
\* newFlame(withDimentions(0, 0)): width 0, height 0, a nil grid, renders 0.
InitFlame ==
  /\ width = 0
  /\ height = 0
  /\ grid = <<>>
  /\ renders = 0
  /\ work = 0
  /\ sy = 0
  /\ sx = 0
  /\ last = "newFlame"
  /\ panicked = FALSE

\* The variables outside the flame at rest: no direct mapColor call, no
\* seeded draws, main not started.
\* main holds no Dimensions to send.
NoMsg == <<>>

InitProbe == probe = 0 /\ colour = <<>>
InitTrace == wsrc = -1 /\ wjit = 0 /\ wdst = -1 /\ writes = <<>>
InitTape == tape = <<>> /\ tpos = 0
InitMain ==
  /\ mpc = "getsize"
  /\ msg = NoMsg
  /\ cancelled = FALSE
  /\ registered = FALSE
  /\ resets = 0
  /\ intSent = FALSE

vars == <<width, height, grid, renders, work, pc, sy, sx, last, panicked,
          probe, colour, tape, tpos, mpc, msg, cancelled, registered, resets,
          intSent, wsrc, wjit, wdst, writes>>

\* ------------------------------------------------ the Flame API, called freely
\* One goroutine owns a flame and calls its methods in any order, one at a
\* time, with any dimensions up to MaxW x MaxH.
Init ==
  /\ InitFlame
  /\ pc = "idle"
  /\ InitProbe /\ InitTape /\ InitMain /\ InitTrace

CallSetDimensions ==
  /\ pc = "idle" /\ ~panicked
  /\ \E w \in 0 .. MaxW, h \in 0 .. MaxH : SetDimensions(w, h)
  /\ UNCHANGED <<pc, probeVars, traceVars, tapeVars, mainVars>>

CallSpread ==
  /\ pc = "idle" /\ ~panicked
  /\ work + SpreadIterations <= MaxWork
  /\ SpreadCall
  /\ pc' = "Spread"
  /\ UNCHANGED <<probeVars, traceVars, tapeVars, mainVars>>

StepSpreadCell ==
  /\ pc = "Spread" /\ ~panicked
  /\ \E j \in Intn, r \in Intn : SpreadCell(j, r)
  /\ UNCHANGED <<pc, probeVars, traceVars, tapeVars, mainVars>>

StepSpreadRowEnd ==
  /\ pc = "Spread" /\ ~panicked
  /\ SpreadRowEnd
  /\ UNCHANGED <<pc, probeVars, traceVars, tapeVars, mainVars>>

StepSpreadReturn ==
  /\ pc = "Spread" /\ ~panicked
  /\ SpreadReturn
  /\ pc' = "idle"
  /\ UNCHANGED <<probeVars, traceVars, tapeVars, mainVars>>

CallRender ==
  /\ pc = "idle" /\ ~panicked
  /\ renders < MaxRenders
  /\ Render
  /\ UNCHANGED <<pc, probeVars, traceVars, tapeVars, mainVars>>

Next ==
  \/ CallSetDimensions
  \/ CallSpread
  \/ StepSpreadCell
  \/ StepSpreadRowEnd
  \/ StepSpreadReturn
  \/ CallRender

Spec == Init /\ [][Next]_vars

\* ------------------------------------------------- mapColor, called directly
\* mapColor is applied once to an int8 argument.
InitPalette ==
  /\ InitFlame
  /\ pc = "idle"
  /\ probe \in Int8Range
  /\ colour = <<>>
  /\ InitTape /\ InitMain /\ InitTrace

CallMapColor ==
  /\ colour = <<>> /\ ~panicked
  /\ IF mapColorPanics(probe)
       THEN panicked' = TRUE /\ UNCHANGED colour
       ELSE colour' = mapColor(probe) /\ UNCHANGED panicked
  /\ UNCHANGED <<width, height, grid, renders, work, pc, sy, sx, last, probe>>
  /\ UNCHANGED <<tapeVars, mainVars, traceVars>>

NextPalette == CallMapColor

PaletteSpec == InitPalette /\ [][NextPalette]_vars

\* ------------------------------------------- one Spread with a seeded generator
\* flame.rand is seeded once (newFlame): its draws are a fixed sequence.  The
\* sequences are those that repeat a word of at most MaxPeriod draws.
Tapes == UNION {[1 .. n -> Intn] : n \in 1 .. MaxPeriod}

\* The draw rand.Intn(6) yields at position p of the tape, and the next position.
TapeDraw(p) == tape[p]
TapeNext(p) == IF p >= Len(tape) THEN 1 ELSE p + 1

\* SetDimensions({4, 4}) has run on a fresh flame.
Init4x4 ==
  /\ width = 4
  /\ height = 4
  /\ grid = InitGrid(4, 4)
  /\ renders = 0
  /\ work = 0
  /\ sy = 0
  /\ sx = 0
  /\ last = "SetDimensions"
  /\ panicked = FALSE
  /\ pc = "idle"
  /\ tape \in Tapes
  /\ tpos = 1
  /\ InitProbe /\ InitMain /\ InitTrace

\* Spread() is called once.
SeededSpreadCall ==
  /\ pc = "idle" /\ ~panicked
  /\ last = "SetDimensions"
  /\ SpreadCall
  /\ pc' = "Spread"
  /\ UNCHANGED <<probeVars, traceVars, tapeVars, mainVars>>

\* One inner-loop iteration: the jitter draw, and the decay draw when the
\* cell is not skipped (the continue comes before the second Intn).
SeededSpreadCell ==
  /\ pc = "Spread" /\ ~panicked
  /\ sy > 0 /\ sx < width
  /\ LET j == TapeDraw(tpos)
         p2 == TapeNext(tpos)
     IN IF SpreadSkip(sy, SpreadDst(sy, sx, j))
          THEN SpreadCell(j, 0) /\ tpos' = p2
          ELSE SpreadCell(j, TapeDraw(p2)) /\ tpos' = TapeNext(p2)
  /\ UNCHANGED <<pc, tape, probeVars, traceVars, mainVars>>

Next4x4 ==
  \/ SeededSpreadCall
  \/ SeededSpreadCell
  \/ StepSpreadRowEnd
  \/ StepSpreadReturn

Spec4x4 == Init4x4 /\ [][Next4x4]_vars

\* ------------------------------------- Spread, its reads and writes recorded
\* The Flame API as above (SetDimensions and Spread, any draws), with every
\* inner-loop iteration of Spread recording the index it read, its jitter
\* draw and the index it wrote.
NoWrites == [i \in DOMAIN grid |-> 0]

TraceSetDimensions ==
  /\ pc = "idle" /\ ~panicked
  /\ \E w \in 0 .. MaxTraceW, h \in 0 .. MaxTraceH : SetDimensions(w, h)
  /\ wsrc' = -1 /\ wjit' = 0 /\ wdst' = -1 /\ writes' = <<>>
  /\ UNCHANGED <<pc, probeVars, tapeVars, mainVars>>

TraceSpreadCall ==
  /\ pc = "idle" /\ ~panicked
  /\ work + SpreadIterations <= MaxTraceWork
  /\ SpreadCall
  /\ pc' = "Spread"
  /\ wsrc' = -1 /\ wjit' = 0 /\ wdst' = -1 /\ writes' = NoWrites
  /\ UNCHANGED <<probeVars, tapeVars, mainVars>>

\* One inner-loop iteration: src is read (line 93) unless the cell is skipped
\* (line 85); the index written is dst after the redirect (lines 88-90).
TraceSpreadCell ==
  /\ pc = "Spread" /\ ~panicked
  /\ \E j \in Intn, r \in Intn :
        LET dst0 == SpreadDst(sy, sx, j)
            dst == SpreadRedirect(dst0)
        IN /\ SpreadCell(j, r)
           /\ wsrc' = SpreadSrc(sy, sx)
           /\ wjit' = j
           /\ wdst' = IF SpreadSkip(sy, dst0) THEN -1 ELSE dst
           /\ writes' = IF SpreadSkip(sy, dst0) \/ dst \notin DOMAIN writes
                           THEN writes
                           ELSE [writes EXCEPT ![dst] = @ + 1]
  /\ UNCHANGED <<pc, probeVars, tapeVars, mainVars>>

NextTrace ==
  \/ TraceSetDimensions
  \/ TraceSpreadCall
  \/ TraceSpreadCell
  \/ StepSpreadRowEnd
  \/ StepSpreadReturn

TraceSpec == Init /\ [][NextTrace]_vars

\* ------------------------------------------- flames at least four cells wide
\* The Flame API (SetDimensions and Spread, any draws) on grids 4 to MaxWideW
\* wide and 1 to MaxWideH high, the last read and write of Spread recorded
\* (the writes per cell are not counted: writes stays empty).
WideSetDimensions ==
  /\ pc = "idle" /\ ~panicked
  /\ \E w \in 4 .. MaxWideW, h \in 1 .. MaxWideH : SetDimensions(w, h)
  /\ wsrc' = -1 /\ wjit' = 0 /\ wdst' = -1 /\ writes' = <<>>
  /\ UNCHANGED <<pc, probeVars, tapeVars, mainVars>>

WideSpreadCall ==
  /\ pc = "idle" /\ ~panicked
  /\ work + SpreadIterations <= MaxWideWork
  /\ SpreadCall
  /\ pc' = "Spread"
  /\ wsrc' = -1 /\ wjit' = 0 /\ wdst' = -1 /\ writes' = <<>>
  /\ UNCHANGED <<probeVars, tapeVars, mainVars>>

NextWide ==
  \/ WideSetDimensions
  \/ WideSpreadCall
  \/ TraceSpreadCell
  \/ StepSpreadRowEnd
  \/ StepSpreadReturn

WideSpec == Init /\ [][NextWide]_vars

\* ------------------------------------------------------ main and fire
\* main (the driver) and the goroutine of fire (the worker) share the
\* unbuffered channel rc/dims and the context.  A send on the channel is a
\* rendezvous: the sender waits at its send until the receiver takes the value.

\* The sizes term.GetSize may report: columns and rows.
TermSizes == (0 .. MaxCols) \X (0 .. MaxRows)

\* DimsOf without the doubling of the height.
DimsOfNoDouble(size) == <<size[1], size[2]>>

\* Dimensions{Width: width, Height: height * 2}
DimsOf(size) == <<size[1], size[2] * 2>>

\* main is blocked in a send on dims (the initial one, or one after a resize).
MainSending == mpc \in {"sendInit", "sendResize"}

\* Where main continues once a send has been received.
AfterSend == IF mpc = "sendInit" THEN "notify" ELSE "range"

\* AfterCancel with the receive of the acknowledgment left out.
AfterCancelNoWait == "reset1"

\* AfterCancel without the break: main goes on reading signals.
AfterCancelNoBreak == "range"

\* Where main continues after cancel(): break innerloop, then <-dims.
AfterCancel == "waitAck"

\* The process is running: main has neither returned nor panicked, and no
\* goroutine has panicked.
Running == ~panicked /\ mpc \notin {"abort", "exit"}

InitProc ==
  /\ InitFlame
  /\ pc = "unborn"
  /\ InitProbe /\ InitTape /\ InitMain /\ InitTrace

\* width, height, err := term.GetSize(0); if err != nil { panic(err) }
MainGetSize ==
  /\ mpc = "getsize" /\ Running
  /\ \/ /\ mpc' = "abort"
        /\ UNCHANGED msg
     \/ \E size \in TermSizes :
          /\ msg' = DimsOf(size)
          /\ mpc' = "fire"
  /\ UNCHANGED <<width, height, grid, renders, work, pc, sy, sx, last, panicked>>
  /\ UNCHANGED <<cancelled, registered, resets, intSent, probeVars, traceVars, tapeVars>>

\* ctx, cancel := context.WithCancel(...); dims := fire(ctx): the goroutine
\* starts, builds its flame (newFlame) and enters its loop; fire returns the
\* channel to main.
MainFire ==
  /\ mpc = "fire" /\ Running
  /\ pc = "unborn"
  /\ pc' = "idle"
  /\ mpc' = "fired"
  /\ UNCHANGED <<width, height, grid, renders, work, sy, sx, last, panicked>>
  /\ UNCHANGED <<msg, cancelled, registered, resets, intSent, probeVars, traceVars, tapeVars>>

\* dims <- Dimensions{Width: width, Height: height * 2}: main reaches its
\* first send and waits in it.  Until then the worker finds no case ready.
MainSendInit ==
  /\ mpc = "fired" /\ Running
  /\ mpc' = "sendInit"
  /\ UNCHANGED <<width, height, grid, renders, work, pc, sy, sx, last, panicked>>
  /\ UNCHANGED <<msg, cancelled, registered, resets, intSent, probeVars, traceVars, tapeVars>>

\* DefaultReady with the readiness of the other cases ignored.
DefaultReadyAlways == TRUE

\* default: taken only when no other case is ready, that is when ctx.Done()
\* is not closed and no sender waits on rc.
DefaultReady == ~cancelled /\ ~MainSending

\* case dims := <-rc: flame.SetDimensions(dims).  The case is ready when main
\* waits in a send; main's send completes with it.
FireRecv ==
  /\ pc = "idle" /\ Running
  /\ MainSending
  /\ SetDimensions(msg[1], msg[2])
  /\ mpc' = AfterSend
  /\ msg' = NoMsg
  /\ UNCHANGED <<pc, cancelled, registered, resets, intSent, probeVars, traceVars, tapeVars>>

\* case <-ctx.Done(): the worker goes to send its acknowledgment.
FireCancel ==
  /\ pc = "idle" /\ Running
  /\ cancelled
  /\ pc' = "ack"
  /\ UNCHANGED <<width, height, grid, renders, work, sy, sx, last, panicked>>
  /\ UNCHANGED <<mainVars, probeVars, traceVars, tapeVars>>

\* default: taken only when no other case is ready.  flame.Render().
FireRender ==
  /\ pc = "idle" /\ Running
  /\ DefaultReady
  /\ renders < MaxFrames /\ work + SpreadIterations <= MaxFrameWork
  /\ Render
  /\ pc' = "rendered"
  /\ UNCHANGED <<mainVars, probeVars, traceVars, tapeVars>>

\* flame.Spread() is called after Render.
FireSpreadCall ==
  /\ pc = "rendered" /\ Running
  /\ SpreadCall
  /\ pc' = "Spread"
  /\ UNCHANGED <<mainVars, probeVars, traceVars, tapeVars>>

FireSpreadCell ==
  /\ pc = "Spread" /\ Running
  /\ \E j \in Intn, r \in Intn : SpreadCell(j, r)
  /\ UNCHANGED <<pc, mainVars, probeVars, traceVars, tapeVars>>

FireSpreadRowEnd ==
  /\ pc = "Spread" /\ Running
  /\ SpreadRowEnd
  /\ UNCHANGED <<pc, mainVars, probeVars, traceVars, tapeVars>>

FireSpreadReturn ==
  /\ pc = "Spread" /\ Running
  /\ SpreadReturn
  /\ pc' = "idle"
  /\ UNCHANGED <<mainVars, probeVars, traceVars, tapeVars>>

\* rc <- Dimensions{}; return: the acknowledgment is received by main's <-dims.
FireAck ==
  /\ pc = "ack" /\ Running
  /\ mpc = "waitAck"
  /\ pc' = "done"
  /\ mpc' = "reset1"
  /\ UNCHANGED <<width, height, grid, renders, work, sy, sx, last, panicked>>
  /\ UNCHANGED <<msg, cancelled, registered, resets, intSent, probeVars, traceVars, tapeVars>>

\* sigs := make(chan os.Signal); signal.Notify(sigs, SIGWINCH, SIGINT)
MainNotify ==
  /\ mpc = "notify" /\ Running
  /\ registered' = TRUE
  /\ mpc' = "range"
  /\ UNCHANGED <<width, height, grid, renders, work, pc, sy, sx, last, panicked>>
  /\ UNCHANGED <<msg, cancelled, resets, intSent, probeVars, traceVars, tapeVars>>

\* A signal reaches the process.  The runtime hands it to sigs without
\* blocking: sigs has no buffer, so main gets it only if it is waiting in
\* "for sig := range sigs"; otherwise the signal is dropped.
Signal(sig) ==
  /\ registered /\ Running
  /\ intSent' = (intSent \/ sig = "SIGINT")
  /\ mpc' = IF mpc = "range"
              THEN (IF sig = "SIGINT" THEN "int" ELSE "winch")
              ELSE mpc
  /\ UNCHANGED <<width, height, grid, renders, work, pc, sy, sx, last, panicked>>
  /\ UNCHANGED <<msg, cancelled, registered, resets, probeVars, traceVars, tapeVars>>

SignalWinch == Signal("SIGWINCH")
SignalInt == Signal("SIGINT")

\* case syscall.SIGWINCH: width, height, _ := term.GetSize(0), then the send.
MainWinch ==
  /\ mpc = "winch" /\ Running
  /\ \E size \in TermSizes : msg' = DimsOf(size)
  /\ mpc' = "sendResize"
  /\ UNCHANGED <<width, height, grid, renders, work, pc, sy, sx, last, panicked>>
  /\ UNCHANGED <<cancelled, registered, resets, intSent, probeVars, traceVars, tapeVars>>

\* case syscall.SIGINT: cancel(); break innerloop
MainInt ==
  /\ mpc = "int" /\ Running
  /\ cancelled' = TRUE
  /\ mpc' = AfterCancel
  /\ UNCHANGED <<width, height, grid, renders, work, pc, sy, sx, last, panicked>>
  /\ UNCHANGED <<msg, registered, resets, intSent, probeVars, traceVars, tapeVars>>

\* os.Stdout.Write([]byte("\x1b[39;m")), then os.Stdout.Write([]byte("\x1b[49;m"))
\* and main returns.
MainReset1 ==
  /\ mpc = "reset1" /\ Running
  /\ resets' = 1
  /\ mpc' = "reset2"
  /\ UNCHANGED <<width, height, grid, renders, work, pc, sy, sx, last, panicked>>
  /\ UNCHANGED <<msg, cancelled, registered, intSent, probeVars, traceVars, tapeVars>>

MainReset2 ==
  /\ mpc = "reset2" /\ Running
  /\ resets' = 2
  /\ mpc' = "exit"
  /\ UNCHANGED <<width, height, grid, renders, work, pc, sy, sx, last, panicked>>
  /\ UNCHANGED <<msg, cancelled, registered, intSent, probeVars, traceVars, tapeVars>>

\* The steps of the worker goroutine, and those of main.
FireNext ==
  \/ FireRecv
  \/ FireCancel
  \/ FireRender
  \/ FireSpreadCall
  \/ FireSpreadCell
  \/ FireSpreadRowEnd
  \/ FireSpreadReturn
  \/ FireAck

MainNext ==
  \/ MainGetSize
  \/ MainFire
  \/ MainSendInit
  \/ MainNotify
  \/ MainWinch
  \/ MainInt
  \/ MainReset1
  \/ MainReset2

NextProc ==
  \/ FireNext
  \/ MainNext
  \/ SignalWinch
  \/ SignalInt

ProcSpec == InitProc /\ [][NextProc]_vars

\* Both goroutines are scheduled: a step of main or of the worker that stays
\* possible is taken.  Signals come from outside and need not come.
FairProcSpec ==
  /\ InitProc
  /\ [][NextProc]_vars
  /\ WF_vars(FireNext)
  /\ WF_vars(MainNext)

\* ------------------------------------------------------------- properties
\* A Flame method has returned and none is running.
Returned(m) == last = m /\ pc = "idle" /\ ~panicked

\* The cells of the last row of a w x h grid.
BottomRow(w, h) == {i \in 0 .. (w * h - 1) : i >= (h - 1) * w}

\* C1: with height >= 1, whenever no Spread is running (after Init and after
\* every completed Spread, whatever the draws were) every cell is in 0..35.
C1_ClampInvariant ==
  (pc = "idle" /\ ~panicked /\ height >= 1) =>
     \A i \in DOMAIN grid : grid[i] >= 0 /\ grid[i] <= 35

\* A Spread that has run at least two iterations has returned and left a cell
\* strictly between the two clip bounds.
C1_Witness ==
  /\ Returned("Spread") /\ work >= 2
  /\ \E i \in DOMAIN grid : grid[i] > 0 /\ grid[i] < 35

\* C2: with width >= 1 and height >= 1, every cell of the last row is 35
\* after Init and after every completed Spread (Spread never writes to the
\* bottom row).
C2_BottomRowPinned ==
  (pc = "idle" /\ ~panicked /\ width >= 1 /\ height >= 1) =>
     \A i \in BottomRow(width, height) : i \in DOMAIN grid /\ grid[i] = 35

\* C3: after SetDimensions({w, h}) with h > 0 the grid has exactly w*h cells,
\* 35 in the last row and 0 everywhere else, whatever the flame held before.
C3_InitPostcondition ==
  (Returned("SetDimensions") /\ height > 0) =>
     /\ DOMAIN grid = 0 .. (width * height - 1)
     /\ \A i \in DOMAIN grid :
          grid[i] = IF i \in BottomRow(width, height) THEN 35 ELSE 0

\* SetDimensions has returned on a flame that had already rendered a frame,
\* leaving a grid with rows above the bottom row.
C3_Witness ==
  /\ Returned("SetDimensions") /\ renders >= 1
  /\ width >= 2 /\ height >= 2
  /\ grid[0] = 0 /\ grid[width * height - 1] = 35

\* C4: SetDimensions/Init and Spread never fail on non-negative dimensions:
\* no state in which one of them was the last call is a panic.
C4_InitSpreadTotal ==
  last \in {"SetDimensions", "Spread"} => ~panicked

\* The colours a terminal may have been left in before a frame: black, the
\* first and the last palette colour, and a colour no frame ever sets.
LeftColours == {Black, cmap[1], cmap[Len(cmap)], <<-1, -1, -1>>}

\* What a renderer that sets both colours before every glyph shows: for the
\* k-th glyph, the palette colours of the two cells it stands for.
ExpectedShown(g, w, h) ==
  [k \in 1 .. (IF w > 0 THEN RenderRowPairs(h) * w ELSE 0) |->
     << mapColor(g[RenderFgIndex(w, k - 1)]), mapColor(g[RenderBgIndex(w, k - 1)]) >>]

\* main has received the worker's acknowledgment.
Acked == mpc \in {"reset1", "reset2", "exit"}

\* C5: the worker, once it has sent its acknowledgment, has terminated and
\* renders and spreads no more; main writes the colour resets only after it
\* has received the acknowledgment; so no frame is written after a reset.
C5_ShutdownOrdering ==
  [][ /\ (pc = "done" => pc' = "done" /\ renders' = renders /\ grid' = grid)
      /\ (resets' > 0 => pc' = "done" /\ cancelled')
      /\ (Acked' => pc' = "done")
      /\ (resets > 0 => renders' = renders) ]_vars

\* main has written both resets and returned, after the worker had rendered a
\* frame of a non-empty grid.
C5_Witness ==
  /\ mpc = "exit" /\ resets = 2 /\ pc = "done"
  /\ renders >= 1 /\ width >= 1 /\ height >= 2

\* C6: every send of main on the dimensions channel is eventually received
\* by the worker, and after cancel() main eventually receives the
\* acknowledgment: main and worker never stay blocked on the channel.
C6_HandshakeLive ==
  /\ (mpc = "sendInit") ~> (mpc # "sendInit")
  /\ (mpc = "sendResize") ~> (mpc # "sendResize")
  /\ cancelled ~> Acked

\* main waits in a send of a resize while the worker is in the middle of a
\* frame.
C6_Witness ==
  /\ mpc = "sendResize" /\ pc = "Spread" /\ sx >= 1
  /\ width >= 1 /\ height >= 2

\* C7: a SIGINT that reaches the process after signal registration, at any
\* moment, always leads to cancel, the acknowledgment and the colour resets
\* (a process that has panicked in the meantime is not held against the
\* claim).  This is the interrupt half of the claim; the resize half falls
\* with the same dropped signal.
C7_InterruptLeadsToShutdown ==
  intSent ~> ((cancelled /\ resets = 2) \/ panicked)

\* C8: the frame Render has just written from a grid of even height shows, for
\* every glyph and whatever colours the terminal was left in, the palette
\* colour of the upper cell as foreground and of the lower cell as background.
C8_SuppressionPreservesColours ==
  (Returned("Render") /\ height % 2 = 0) =>
     \A fg0 \in LeftColours, bg0 \in LeftColours :
        Terminal(RenderBuffer(grid, width, height), 1, fg0, bg0).shown
          = ExpectedShown(grid, width, height)

\* A frame of at least two glyphs has been written in which a colour
\* sequence was suppressed (fewer than two colour sequences per glyph).
C8_Witness ==
  /\ Returned("Render") /\ height % 2 = 0 /\ width >= 2 /\ height >= 2
  /\ work >= 1
  /\ Len(RenderBuffer(grid, width, height)) < 1 + 3 * (RenderRowPairs(height) * width)
  /\ \E i \in DOMAIN grid : grid[i] \notin {0, 35}

\* C9: after Init with width 4 and height 4 and exactly one Spread(), every
\* cell of row 2 (indices 8..11) is 0 or in 31..35, and the bottom row
\* (indices 12..15) is still 35 everywhere.
C9_Scenario4x4 ==
  (Returned("Spread") /\ width = 4 /\ height = 4) =>
     /\ \A i \in 8 .. 11 : grid[i] = 0 \/ (grid[i] >= 31 /\ grid[i] <= 35)
     /\ \A i \in 12 .. 15 : grid[i] = 35

\* C10: mapColor returns the v-th palette entry for v in 0..35 (index 0 is
\* (7,7,7), index 35 is (255,255,255)), black for every other int8, and
\* never reads outside the table.
C10_PaletteTotality ==
  /\ ~panicked
  /\ colour # <<>> =>
       /\ (probe \in 0 .. 35 => colour = cmap[probe + 1] /\ colour # Black)
       /\ (probe \notin 0 .. 35 => colour = Black)
       /\ (probe = 0 => colour = <<7, 7, 7>>)
       /\ (probe = 12 => colour = <<223, 79, 7>>)
       /\ (probe = 35 => colour = <<255, 255, 255>>)

\* mapColor has answered the first value above the table.
C10_Witness == probe = 36 /\ colour = Black

\* C11: on the degenerate flame (width 0, height 0: the flame of newFlame and
\* the one SetDimensions({0,0}) leaves) nothing panics, the grid stays empty,
\* a Spread that has been entered has no iteration to run and returns, and
\* the frame of Render is the cursor-home sequence alone: no colour sequence,
\* no glyph, no grid cell read.
C11_DegenerateFlame ==
  (width = 0 /\ height = 0) =>
     /\ ~panicked
     /\ DOMAIN grid = {}
     /\ (pc = "Spread" => sy <= 0)
     /\ RenderBuffer(grid, width, height) = <<CursorHome>>

\* Render and then Spread have both run and returned on the degenerate flame.
C11_Witness ==
  /\ Returned("Spread") /\ width = 0 /\ height = 0
  /\ renders = 1 /\ work = 0

\* The row and column of a flat index, the destination as computed on line 81
\* for the recorded iteration, and the number of writes of the running pass.
RowOf(i) == i \div width
ColOf(i) == i % width
RawDst == (wsrc - width) + wjit - JitterShift

RECURSIVE SumWrites(_)
SumWrites(n) == IF n <= 0 THEN 0 ELSE writes[n - 1] + SumWrites(n - 1)

\* An inner-loop iteration of Spread has run and is recorded.
Traced == wsrc # -1 /\ ~panicked

\* C12: the cell Spread writes for the source cell at row y, column x is in
\* row y-1 (flat index in (y-1)*w .. y*w-1), and when the jittered column
\* x + (j-2) is outside 0 .. w-1 nothing is written for that source cell.
C12_WritesOnlyRowAbove ==
  Traced =>
     LET y == RowOf(wsrc)
         col == ColOf(wsrc) + wjit - JitterShift
     IN /\ (wdst # -1 => wdst >= (y - 1) * width /\ wdst <= y * width - 1)
        /\ (col \notin 0 .. (width - 1) => wdst = -1)

C18_SpreadIndexSafety ==
  (last = "Spread" /\ width >= 1 /\ height >= 1) =>
     /\ ~panicked
     /\ wsrc # -1 => wsrc \in 0 .. (width * height - 1)
     /\ wdst # -1 => wdst \in 0 .. (width * height - 1)
     /\ (wsrc # -1 /\ wdst # -1 /\ RawDst > width * height - 1) =>
          /\ width <= 2
          /\ RowOf(wsrc) = height - 1
          /\ wdst = width * height - 1

\* On a grid two cells wide, a destination past the last cell has been
\* written at the last cell.
C18_Witness ==
  /\ last = "Spread" /\ Traced /\ width = 2 /\ height >= 2
  /\ RawDst > width * height - 1 /\ wdst = width * height - 1

\* C15: in every Render of a grid with width >= 1 and height >= 2, the
\* palette colours of the first cell pair (cells 0 and width) differ from the
\* initial cache (0,0,0), and the frame starts with the cursor-home sequence,
\* a set-foreground and a set-background sequence with these colours, and
\* only then the first glyph.
C15_FirstCellEmitsColours ==
  (last = "Render" /\ pc = "idle" /\ width >= 1 /\ height >= 2) =>
     /\ mapColor(grid[0]) # RenderInitCache
     /\ mapColor(grid[width]) # RenderInitCache
     /\ ~panicked =>
          LET buf == RenderBuffer(grid, width, height)
          IN /\ Len(buf) >= 4
             /\ buf[1] = CursorHome
             /\ buf[2] = SetFg(cmap[grid[0] + 1])
             /\ buf[3] = SetBg(cmap[grid[width] + 1])
             /\ buf[4] = Glyph

\* Render has written a frame of a grid whose first cell a Spread has heated.
C15_Witness ==
  /\ Returned("Render") /\ width >= 1 /\ height >= 2
  /\ work >= 1 /\ grid[0] > 0 /\ grid[width] > 0

C16_EvenHeight ==
  /\ height % 2 = 0
  /\ DOMAIN grid = 0 .. (width * height - 1)
  /\ ~RenderPanics(grid, width, height)
  /\ (last = "Render" => ~panicked)

\* After signal registration the worker has rendered a frame of a grid with
\* two rows.
C16_Witness ==
  /\ pc = "rendered" /\ last = "Render" /\ registered
  /\ width >= 1 /\ height = 2 /\ renders >= 1

\* C17: while main waits in a send of dimensions the worker starts no Render
\* (it only finishes the Spread of the frame it is in); the send completes
\* with SetDimensions of exactly the value sent, which leaves the grid of
\* Init for that size; and the first frame rendered after SetDimensions is
\* that of the freshly initialised grid.
C17_ResizeObserved ==
  [][ /\ MainSending => renders' = renders /\ (pc = "idle" => pc' # "rendered")
      /\ (MainSending /\ ~MainSending') =>
           /\ pc = "idle" /\ last' = "SetDimensions"
           /\ width' = msg[1] /\ height' = msg[2]
           /\ ~panicked' => grid' = InitGrid(msg[1], msg[2])
      /\ (last = "SetDimensions" /\ pc' = "rendered" /\ pc = "idle") =>
           grid = InitGrid(width, height) ]_vars

\* main waits in the send of a resize to a different size, and the worker has
\* finished the frame it was in and is back at its select.
C17_Witness ==
  /\ mpc = "sendResize" /\ pc = "idle" /\ last = "Spread"
  /\ msg # <<width, height>> /\ width >= 1 /\ height >= 2

\* C19: on a grid at least 4 wide (and at least 1 high), after Init and
\* through any number of Spread() calls, the bottom-right cell (index
\* width*height - 1) is 35, so the bottom row is never all zero.
C19_HeatSourceKept ==
  (width >= 4 /\ height >= 1 /\ ~panicked) =>
     /\ grid[width * height - 1] = 35
     /\ \E i \in BottomRow(width, height) : grid[i] # 0
     /\ wdst # width * height - 1

\* A Spread() has returned on a grid at least 4 wide and has cooled every
\* cell of the bottom row that Spread can reach (columns 0 to 2).
C19_Witness ==
  /\ Returned("Spread") /\ width >= 4 /\ height >= 2
  /\ work >= SpreadIterations
  /\ \A i \in BottomRow(width, height) :
        ColOf(i) <= 2 => grid[i] < 35

=============================================================================
